---- MODULE Spec2Model ----
(***************************************************************************)
(* Check-in kiosk backend: the check-in code codec (api/codes.py) and the  *)
(* batch check-in endpoint with its print job (api/server.py,              *)
(* api/breeze.py, api/printer.py).                                         *)
(*                                                                         *)
(* Text is a sequence of one-character strings.  An optional value         *)
(* (Python's None or a value) is a sequence of length 0 or 1.              *)
(***************************************************************************)
EXTENDS Integers, Sequences, FiniteSets, TLC

VARIABLES
    \* ---- codec (api/codes.py) ----
    cpc,            \* position of the codec run: "input", "encoded", "typed", "decoded", "validated"
    person_id,      \* encode_checkin_code argument
    instance_id,    \* encode_checkin_code argument
    code,           \* the text on the label, then as typed back at the kiosk
    decoded,        \* decode_checkin_code's return value (<<>> is None)
    expected,       \* validate_checkin_code's expected_instance_id / expected_person_id
    validated,      \* validate_checkin_code's return value (<<>> is None)
    \* ---- batch check-in (api/server.py, api/breeze.py, api/printer.py) ----
    bpc,            \* position of batch_checkin: "received", "rejected", "gathering", "returned"
    request,        \* the BatchCheckinRequest
    remoteAnswers,  \* the responses the remote service may give during this request
    task,           \* task[k]: position of _checkin_one(people[k]): "idle", "inflight", "done"
    addCalls,       \* addCalls[k]: how often add_attendance was invoked for people[k]
    answer,         \* answer[k]: the remote's response to that call (<<>> while there is none)
    taskReturn,     \* taskReturn[k]: what _checkin_one(people[k]) returned (<<>> while running)
    results,        \* the list asyncio.gather returned
    labels_to_print,\* the label list batch_checkin built
    printCalls,     \* the label lists printer.print_labels was invoked with, in order
    print_success,  \* batch_checkin's print_success
    spool,          \* the files handed to lp, each a sequence of pages, in order
    tmpFiles,       \* how many temporary PDF files exist
    response        \* the HTTP response (<<>> while there is none)

cvars == <<cpc, person_id, instance_id, code, decoded, expected, validated>>

bvars == <<bpc, request, remoteAnswers, task, addCalls, answer, taskReturn, results,
           labels_to_print, printCalls, print_success, spool, tmpFiles, response>>

vars == <<cvars, bvars>>

(***************************************************************************)
(* Bounds of the model.                                                    *)
(***************************************************************************)
\* ids are sampled at each landmark l as l .. l + IdSpread
IdSpread == 1

\* a batch of the fully interleaved runs has at most MaxPeople people
MaxPeople == 3

\* and at most MaxExtra extra labels
MaxExtra == 1

\* batch sizes up to MAX_BATCH_SIZE + MaxOver are tried against the size limit
MaxOver == 1

(***************************************************************************)
(* api/codes.py                                                            *)
(***************************************************************************)
ALPHABET ==
    << "2", "3", "4", "5", "6", "7", "8", "9",
       "A", "B", "C", "D", "E", "F", "G", "H", "J", "K", "M", "N",
       "P", "Q", "R", "S", "T", "U", "V", "W", "X", "Y", "Z" >>

BASE == Len(ALPHABET)

\* data & 0xF and data >>= 4
NIBBLE == 16

\* x & 0x7FFF is x mod 2^15; x << 15 and x >> 15 multiply and divide by 2^15
MASK15 == 32768

\* the number of data symbols of a code (range(6), indices[:6])
DATA_LEN == 6

\* the length a normalized code must have (len(code) != 7)
CODE_LEN == 7

\* f"{code[:3]}-{code[3:]}"
HYPHEN_AT == 3

RECURSIVE NibbleSum(_)
NibbleSum(data) ==
    IF data = 0 THEN 0 ELSE (data % NIBBLE) + NibbleSum(data \div NIBBLE)

\* _checksum keeping only the parity of the nibble sum
checksum_parity(data) == NibbleSum(data) % 2

\* _checksum: sum of nibbles mod BASE
checksum(data) == NibbleSum(data) % BASE

\* packed = ((iid & 0x7FFF) << 15) | (pid & 0x7FFF)
Pack(pid, iid) == ((iid % MASK15) * MASK15) + (pid % MASK15)

\* the loop of encode_checkin_code: n symbols of temp, least significant first
RECURSIVE DigitsLSB(_, _)
DigitsLSB(temp, n) ==
    IF n = 0 THEN <<>>
    ELSE <<ALPHABET[(temp % BASE) + 1]>> \o DigitsLSB(temp \div BASE, n - 1)

\* chars[::-1]
Reverse(s) == [i \in 1..Len(s) |-> s[Len(s) + 1 - i]]

encode_checkin_code(pid, iid) ==
    LET packed == Pack(pid, iid)
        chars  == Reverse(DigitsLSB(packed, DATA_LEN))
                     \o <<ALPHABET[checksum(packed) + 1]>>
    IN  SubSeq(chars, 1, HYPHEN_AT) \o <<"-">> \o SubSeq(chars, HYPHEN_AT + 1, Len(chars))

generate_code(pid, iid) == encode_checkin_code(pid, iid)

LOWER ==
    << "a", "b", "c", "d", "e", "f", "g", "h", "i", "j", "k", "l", "m",
       "n", "o", "p", "q", "r", "s", "t", "u", "v", "w", "x", "y", "z" >>

UPPER ==
    << "A", "B", "C", "D", "E", "F", "G", "H", "I", "J", "K", "L", "M",
       "N", "O", "P", "Q", "R", "S", "T", "U", "V", "W", "X", "Y", "Z" >>

\* str.upper on one character
UpperChar(c) ==
    IF \E i \in 1..Len(LOWER) : LOWER[i] = c
    THEN UPPER[CHOOSE i \in 1..Len(LOWER) : LOWER[i] = c]
    ELSE c

\* str.replace(ch, "")
RECURSIVE Remove(_, _)
Remove(s, ch) ==
    IF s = <<>> THEN <<>>
    ELSE (IF Head(s) = ch THEN <<>> ELSE <<Head(s)>>) \o Remove(Tail(s), ch)

\* code.upper().replace("-", "").replace(" ", "")
Normalize(s) == Remove(Remove([i \in 1..Len(s) |-> UpperChar(s[i])], "-"), " ")

InAlphabet(c) == \E i \in 1..BASE : ALPHABET[i] = c

\* ALPHABET.index(c)
AlphabetIndex(c) == (CHOOSE i \in 1..BASE : ALPHABET[i] = c) - 1

\* packed = packed * BASE + idx over the data indices, most significant first
RECURSIVE Unpack(_, _)
Unpack(packed, idxs) ==
    IF idxs = <<>> THEN packed
    ELSE Unpack((packed * BASE) + Head(idxs), Tail(idxs))

\* decode_checkin_code without its checksum comparison
decode_unchecked(text) ==
    LET norm == Normalize(text)
    IN  IF Len(norm) # CODE_LEN THEN <<>>
        ELSE IF \E i \in 1..Len(norm) : ~InAlphabet(norm[i]) THEN <<>>
        ELSE LET indices == [i \in 1..Len(norm) |-> AlphabetIndex(norm[i])]
                 packed  == Unpack(0, SubSeq(indices, 1, DATA_LEN))
             IN  << [instance_id |-> (packed \div MASK15) % MASK15,
                     person_id   |-> packed % MASK15] >>

decode_checkin_code(text) ==
    LET norm == Normalize(text)
    IN  IF Len(norm) # CODE_LEN THEN <<>>
        ELSE IF \E i \in 1..Len(norm) : ~InAlphabet(norm[i]) THEN <<>>
        ELSE LET indices == [i \in 1..Len(norm) |-> AlphabetIndex(norm[i])]
                 packed  == Unpack(0, SubSeq(indices, 1, DATA_LEN))
             IN  IF checksum(packed) # indices[DATA_LEN + 1] THEN <<>>
                 ELSE << [instance_id |-> (packed \div MASK15) % MASK15,
                          person_id   |-> packed % MASK15] >>

\* validate_checkin_code comparing the expected ids unreduced
validate_unmasked(text, expected_instance_id, expected_person_id) ==
    LET dec == decode_checkin_code(text)
    IN  IF dec = <<>> THEN <<>>
        ELSE IF /\ expected_instance_id # <<>>
                /\ expected_instance_id[1] # dec[1].instance_id THEN <<>>
        ELSE IF /\ expected_person_id # <<>>
                /\ expected_person_id[1] # dec[1].person_id THEN <<>>
        ELSE dec

validate_checkin_code(text, expected_instance_id, expected_person_id) ==
    LET dec == decode_checkin_code(text)
    IN  IF dec = <<>> THEN <<>>
        ELSE IF /\ expected_instance_id # <<>>
                /\ (expected_instance_id[1] % MASK15) # dec[1].instance_id THEN <<>>
        ELSE IF /\ expected_person_id # <<>>
                /\ (expected_person_id[1] % MASK15) # dec[1].person_id THEN <<>>
        ELSE dec

\* the codec is not in use
NoCodec ==
    /\ cpc = "off"
    /\ person_id = 0
    /\ instance_id = 0
    /\ code = <<>>
    /\ decoded = <<>>
    /\ expected = [instance_id |-> <<>>, person_id |-> <<>>]
    /\ validated = <<>>

(***************************************************************************)
(* api/breeze.py, api/printer.py, api/server.py: batch_checkin             *)
(***************************************************************************)
MAX_BATCH_SIZE == 15

\* what POST events/attendance/add may come back with: a JSON body, or an
\* exception out of client.request / raise_for_status
Responses ==
    { [kind |-> "bool",   body |-> "true"],
      [kind |-> "string", body |-> "true"],
      [kind |-> "bool",   body |-> "false"],
      [kind |-> "raise",  body |-> "503 Service Unavailable"] }

\* BreezeClient.add_attendance on a response that did not raise
add_attendance(resp) ==
    \/ (resp.kind = "bool" /\ resp.body = "true")
    \/ (resp.kind = "string" /\ resp.body = "true")

\* _checkin_one without its try/except: the exception leaves the task
checkin_one_uncaught(person, resp) ==
    IF resp.kind = "raise"
    THEN [exc |-> resp.body]
    ELSE IF add_attendance(resp)
         THEN [ret |-> [person_id |-> person.person_id, success |-> TRUE]]
         ELSE [ret |-> [person_id |-> person.person_id, success |-> FALSE, error |-> "Failed"]]

\* batch_checkin._checkin_one: how the task ends, [ret |-> the dict it returns] or
\* [exc |-> the exception that leaves it]
checkin_one(person, resp) ==
    IF resp.kind = "raise"
    THEN [ret |-> [person_id |-> person.person_id, success |-> FALSE, error |-> resp.body]]
    ELSE IF add_attendance(resp)
         THEN [ret |-> [person_id |-> person.person_id, success |-> TRUE]]
         ELSE [ret |-> [person_id |-> person.person_id, success |-> FALSE, error |-> "Failed"]]

\* len(request.people) >= MAX_BATCH_SIZE
TooLargeOffByOne(req) == Len(req.people) >= MAX_BATCH_SIZE

\* len(request.people) > MAX_BATCH_SIZE
TooLarge(req) == Len(req.people) > MAX_BATCH_SIZE

\* the return values with the last task's first
gather_reversed(returns) == [k \in 1..Len(returns) |-> returns[Len(returns) + 1 - k][1].ret]

\* asyncio.gather: the tasks' return values in the order of its arguments
gather(returns) == [k \in 1..Len(returns) |-> returns[k][1].ret]

\* [x for x in s if keep(x)]
RECURSIVE SelectPeople(_, _)
SelectPeople(people, ids) ==
    IF people = <<>> THEN <<>>
    ELSE (IF Head(people).person_id \in ids THEN <<Head(people)>> ELSE <<>>)
             \o SelectPeople(Tail(people), ids)

\* LabelData(name=person.name, code=person.code)
PersonLabel(person) == [name |-> person.name, code |-> person.code, extra |-> ""]

\* the extra labels appended outside the print_labels test
BuildLabelsExtraAlways(req, res) ==
    LET successful_ids == { res[k].person_id : k \in { j \in 1..Len(res) : res[j].success } }
        chosen == SelectPeople(req.people, successful_ids)
    IN  (IF req.print_labels
         THEN [k \in 1..Len(chosen) |-> PersonLabel(chosen[k])]
         ELSE <<>>) \o req.extra_labels

\* the label list of batch_checkin
BuildLabels(req, res) ==
    IF req.print_labels
    THEN LET successful_ids == { res[k].person_id : k \in { j \in 1..Len(res) : res[j].success } }
             chosen == SelectPeople(req.people, successful_ids)
         IN  [k \in 1..Len(chosen) |-> PersonLabel(chosen[k])] \o req.extra_labels
    ELSE <<>>

\* render_parent_label if label.extra else render_kid_label
RenderPage(label) ==
    [layout |-> IF label.extra # "" THEN "parent" ELSE "kid", label |-> label]

\* how one run of CupsPrinter.print_labels can go
PrintPaths == {"ok", "lp_nonzero", "lp_timeout", "lp_missing", "save_error", "tmp_error"}

\* the unlink at the end of the try block, reached only when lp exited with 0
unlink_on_success(tmp_path, path) == IF tmp_path # <<>> /\ path = "ok" THEN 1 ELSE 0

\* finally: if tmp_path: Path(tmp_path).unlink(missing_ok=True): the files removed
unlink_tmp(tmp_path, path) == IF tmp_path # <<>> THEN 1 ELSE 0

\* CupsPrinter.print_labels: its return value, the files it hands to lp, and the
\* temporary files it created and left behind.  The pages are rendered before the
\* try block; rendering is taken to succeed for every label.
print_labels(labels, path) ==
    IF labels = <<>>
    THEN [ret |-> FALSE, lp |-> <<>>, created |-> 0, left |-> 0]
    ELSE LET pages    == [k \in 1..Len(labels) |-> RenderPage(labels[k])]
             \* tmp_path stays None when NamedTemporaryFile raises
             tmp_path == IF path = "tmp_error" THEN <<>> ELSE <<"tmp.pdf">>
             \* pages[0].save(..., save_all=True, append_images=pages[1:])
             saved    == path \notin {"tmp_error", "save_error"}
             \* subprocess.run(["lp", ..., tmp_path]): one file, all pages
             lp       == IF saved /\ path # "lp_missing" THEN <<pages>> ELSE <<>>
         IN  [ret |-> (path = "ok"), lp |-> lp, created |-> Len(tmp_path),
              left |-> Len(tmp_path) - unlink_tmp(tmp_path, path)]

\* the label count whatever the print job returned
LabelsPrintedAlways(labels, ok) == Len(labels)

\* len(labels_to_print) if print_success else 0
LabelsPrinted(labels, ok) == IF ok THEN Len(labels) ELSE 0

\* the printer invoked for an empty list too
ShouldPrintAlways(labels) == TRUE

\* if labels_to_print:
ShouldPrint(labels) == labels # <<>>

(***************************************************************************)
(* The batch run: one request, its concurrent attendance calls, its print  *)
(* job and its response.                                                   *)
(***************************************************************************)
BatchInstances == {7}

BatchPersonIds == {42, 43}

\* the k-th entry of people: its name is the k-th name, its code the one generated
Person(pid, k, iid) ==
    [person_id |-> pid, name |-> <<"kid", k>>, code |-> generate_code(pid, iid)]

ParentLabel == [name |-> "Parent", code |-> <<>>, extra |-> "kid 1, kid 2"]

PeopleLists(iid, sizes) ==
    UNION { { [k \in 1..n |-> Person(ids[k], k, iid)] : ids \in [1..n -> BatchPersonIds] }
            : n \in sizes }

ExtraLists == UNION { [1..n -> {ParentLabel}] : n \in 0..MaxExtra }

NoBatch ==
    /\ bpc = "off"
    /\ request = [instance_id |-> 0, people |-> <<>>,
                  extra_labels |-> <<>>, print_labels |-> FALSE]
    /\ remoteAnswers = {}
    /\ task = <<>>
    /\ addCalls = <<>>
    /\ answer = <<>>
    /\ taskReturn = <<>>
    /\ results = <<>>
    /\ labels_to_print = <<>>
    /\ printCalls = <<>>
    /\ print_success = FALSE
    /\ spool = <<>>
    /\ tmpFiles = 0
    /\ response = <<>>

InitRun ==
    /\ bpc = "received"
    /\ task = [k \in 1..Len(request.people) |-> "idle"]
    /\ addCalls = [k \in 1..Len(request.people) |-> 0]
    /\ answer = [k \in 1..Len(request.people) |-> <<>>]
    /\ taskReturn = [k \in 1..Len(request.people) |-> <<>>]
    /\ results = <<>>
    /\ labels_to_print = <<>>
    /\ printCalls = <<>>
    /\ print_success = FALSE
    /\ spool = <<>>
    /\ tmpFiles = 0
    /\ response = <<>>

\* any request of up to MaxPeople people; the remote may answer each call in any way
InitBatch ==
    /\ NoCodec
    /\ \E iid \in BatchInstances :
          request \in [instance_id : {iid}, people : PeopleLists(iid, 0..MaxPeople),
                       extra_labels : ExtraLists, print_labels : BOOLEAN]
    /\ remoteAnswers = Responses
    /\ InitRun

\* requests at the size limit and above it; the remote answers all calls alike
InitLimit ==
    /\ NoCodec
    /\ \E iid \in BatchInstances, n \in MAX_BATCH_SIZE..(MAX_BATCH_SIZE + MaxOver),
          pl \in BOOLEAN :
          request = [instance_id |-> iid,
                     people |-> [k \in 1..n |-> Person(42 + (k % 2), k, iid)],
                     extra_labels |-> <<>>, print_labels |-> pl]
    /\ remoteAnswers \in { {[kind |-> "bool", body |-> "true"]},
                           {[kind |-> "raise", body |-> "503 Service Unavailable"]} }
    /\ InitRun

\* batch_checkin up to its await of asyncio.gather: the size check
Accept ==
    /\ bpc = "received"
    /\ IF TooLarge(request)
       THEN /\ bpc' = "rejected"
            /\ response' = << [status |-> 400] >>
       ELSE /\ bpc' = "gathering"
            /\ UNCHANGED response
    /\ UNCHANGED <<request, remoteAnswers, task, addCalls, answer, taskReturn, results,
                   labels_to_print, printCalls, print_success, spool, tmpFiles, cvars>>

\* the first step of _checkin_one(people[k]): add_attendance is invoked.  The event
\* loop runs the tasks' first steps in the order asyncio.gather created them.
TaskStart(k) ==
    /\ bpc = "gathering"
    /\ task[k] = "idle"
    /\ \A j \in 1..(k - 1) : task[j] # "idle"
    /\ task' = [task EXCEPT ![k] = "inflight"]
    /\ addCalls' = [addCalls EXCEPT ![k] = @ + 1]
    /\ UNCHANGED <<bpc, request, remoteAnswers, answer, taskReturn, results,
                   labels_to_print, printCalls, print_success, spool, tmpFiles,
                   response, cvars>>

\* the remote's response to the call of people[k] arrives, in any order, and
\* _checkin_one(people[k]) returns
TaskComplete(k) ==
    /\ bpc = "gathering"
    /\ task[k] = "inflight"
    /\ \E resp \in remoteAnswers :
          /\ answer' = [answer EXCEPT ![k] = <<resp>>]
          /\ taskReturn' = [taskReturn EXCEPT ![k] = <<checkin_one(request.people[k], resp)>>]
    /\ task' = [task EXCEPT ![k] = "done"]
    /\ UNCHANGED <<bpc, request, remoteAnswers, addCalls, results,
                   labels_to_print, printCalls, print_success, spool, tmpFiles,
                   response, cvars>>

\* asyncio.gather is done once every task has returned
GatherDone == \A k \in 1..Len(task) : task[k] = "done"

\* asyncio.gather passes on the first exception that leaves one of its tasks
GatherRaised ==
    \E k \in 1..Len(task) : task[k] = "done" /\ "exc" \in DOMAIN taskReturn[k][1]

\* batch_checkin from the return of asyncio.gather to its own return: the label
\* list, the print job (print_labels does not yield to the event loop) and the response
Finish ==
    /\ bpc = "gathering"
    /\ GatherDone \/ GatherRaised
    /\ IF GatherRaised
       THEN /\ response' = << [status |-> 500] >>
            /\ UNCHANGED <<results, labels_to_print, printCalls, print_success, spool, tmpFiles>>
       ELSE LET res    == gather(taskReturn)
                labels == BuildLabels(request, res)
            IN  /\ results' = res
                /\ labels_to_print' = labels
                /\ IF ShouldPrint(labels)
                   THEN \E path \in PrintPaths :
                           LET run == print_labels(labels, path)
                           IN  /\ printCalls' = Append(printCalls, labels)
                               /\ print_success' = run.ret
                               /\ spool' = spool \o run.lp
                               /\ tmpFiles' = tmpFiles + run.left
                               /\ response' = << [status |-> 200, results |-> res,
                                                  labels_printed |-> LabelsPrinted(labels, run.ret)] >>
                   ELSE /\ UNCHANGED <<printCalls, spool, tmpFiles>>
                        /\ print_success' = FALSE
                        /\ response' = << [status |-> 200, results |-> res,
                                           labels_printed |-> LabelsPrinted(labels, FALSE)] >>
    /\ bpc' = "returned"
    /\ UNCHANGED <<request, remoteAnswers, task, addCalls, answer, taskReturn, cvars>>

NextBatch ==
    \/ Accept
    \/ \E k \in 1..Len(task) : TaskStart(k)
    \/ \E k \in 1..Len(task) : TaskComplete(k)
    \/ Finish

Spec == InitBatch /\ [][NextBatch]_vars

SpecLimit == InitLimit /\ [][NextBatch]_vars

(***************************************************************************)
(* The codec run: a code is generated for a label, typed back at the kiosk *)
(* (restyled, or with one slip of the hand), then decoded or validated.    *)
(***************************************************************************)
Around(landmarks) == UNION { { l + d : d \in 0..IdSpread } : l \in landmarks }

\* BASE^6: the number of values 6 symbols can spell
Capacity == BASE * BASE * BASE * BASE * BASE * BASE

\* 2210: a person whose code at instance Capacity \div MASK15 keeps 11 of its
\* single-symbol replacements valid, and whose code at the next instance reads
\* back as another pair
PersonIds == Around({42, 2210, (Capacity % MASK15) - 1, MASK15 - 1 - IdSpread})

InstanceIds == Around({7, Capacity \div MASK15, MASK15 - 1 - IdSpread, MASK15 + 7})

\* what a hand may type in place of, or in addition to, a symbol of the code
TypedChars == {"0", "1", "O", "i", "l", "a", "2", "-", " "}

InitCodec ==
    /\ NoBatch
    /\ cpc = "input"
    /\ person_id \in PersonIds
    /\ instance_id \in InstanceIds
    /\ code = <<>>
    /\ decoded = <<>>
    /\ expected = [instance_id |-> <<>>, person_id |-> <<>>]
    /\ validated = <<>>

\* GET /codes/generate
Encode ==
    /\ cpc = "input"
    /\ code' = generate_code(person_id, instance_id)
    /\ cpc' = "encoded"
    /\ UNCHANGED <<person_id, instance_id, decoded, expected, validated, bvars>>

\* the code is typed in lower case, without its hyphen, or with spaces
Restyle ==
    /\ cpc = "encoded"
    /\ \E lower \in BOOLEAN, sep \in {<<"-">>, <<>>, <<" ">>, <<" ", "-", " ">>} :
          LET cased == IF lower
                       THEN [i \in 1..Len(code) |->
                               IF \E j \in 1..Len(UPPER) : UPPER[j] = code[i]
                               THEN LOWER[CHOOSE j \in 1..Len(UPPER) : UPPER[j] = code[i]]
                               ELSE code[i]]
                       ELSE code
          IN  /\ <<lower, sep>> # <<FALSE, <<"-">> >>
              /\ code' = SubSeq(cased, 1, HYPHEN_AT) \o sep
                             \o SubSeq(cased, HYPHEN_AT + 2, Len(cased))
    /\ cpc' = "restyled"
    /\ UNCHANGED <<person_id, instance_id, decoded, expected, validated, bvars>>

\* one slip of the hand: a symbol replaced, left out, or typed in addition
Slip ==
    /\ cpc = "encoded"
    /\ \/ \E i \in 1..Len(code), c \in TypedChars \cup {ALPHABET[j] : j \in 1..BASE} :
             /\ c # code[i]
             /\ code' = [code EXCEPT ![i] = c]
       \/ \E i \in 1..Len(code) :
             code' = SubSeq(code, 1, i - 1) \o SubSeq(code, i + 1, Len(code))
       \/ \E i \in 0..Len(code), c \in TypedChars :
             code' = SubSeq(code, 1, i) \o <<c>> \o SubSeq(code, i + 1, Len(code))
    /\ cpc' = "typed"
    /\ UNCHANGED <<person_id, instance_id, decoded, expected, validated, bvars>>

\* GET /codes/decode/{code}
Decode ==
    /\ cpc \in {"encoded", "restyled", "typed"}
    /\ decoded' = decode_checkin_code(code)
    /\ cpc' = "decoded"
    /\ UNCHANGED <<person_id, instance_id, code, expected, validated, bvars>>

\* the expected ids a caller may pass: none, the encoded one, its alias, another
ExpectedInstance(id) == {<<>>, <<id>>, <<id + MASK15>>, <<id + 1>>}

ExpectedPerson(id) == {<<>>, <<id>>, <<id + 1>>}

\* POST /codes/validate
Validate ==
    /\ cpc \in {"encoded", "restyled", "typed"}
    /\ \E ei \in ExpectedInstance(instance_id), ep \in ExpectedPerson(person_id) :
          /\ expected' = [instance_id |-> ei, person_id |-> ep]
          /\ validated' = validate_checkin_code(code, ei, ep)
    /\ cpc' = "validated"
    /\ UNCHANGED <<person_id, instance_id, code, decoded, bvars>>

NextCodec ==
    \/ Encode
    \/ Restyle
    \/ Slip
    \/ Decode
    \/ Validate

SpecCodec == InitCodec /\ [][NextCodec]_vars

(***************************************************************************)
(* Properties                                                              *)
(***************************************************************************)

\* the code as generated, not retyped
Untouched == code = encode_checkin_code(person_id, instance_id)

\* C1: round trip: for person_id and instance_id in [0, 2^15), decoding the code
\* that was generated for them returns exactly {instance_id, person_id}.
RoundTrip ==
    ( /\ cpc = "decoded"
      /\ Untouched
      /\ person_id \in 0..(MASK15 - 1)
      /\ instance_id \in 0..(MASK15 - 1) )
    => decoded = << [instance_id |-> instance_id, person_id |-> person_id] >>

\* the dict the claims expect for entry k, from the remote's response to its own call
Outcome(k) ==
    LET a   == answer[k][1]
        pid == request.people[k].person_id
    IN  IF a \in { [kind |-> "bool", body |-> "true"], [kind |-> "string", body |-> "true"] }
        THEN [person_id |-> pid, success |-> TRUE]
        ELSE [person_id |-> pid, success |-> FALSE,
              error |-> IF a.kind = "raise" THEN a.body ELSE "Failed"]

Positions == 1..Len(request.people)

\* C2: a batch of more than MAX_BATCH_SIZE people is rejected before any
\* add_attendance call and before any print submission; a batch of
\* MAX_BATCH_SIZE people or fewer is never rejected.
SizeLimit ==
    /\ Len(request.people) > MAX_BATCH_SIZE =>
          /\ bpc \in {"received", "rejected"}
          /\ \A k \in Positions : addCalls[k] = 0 /\ answer[k] = <<>>
          /\ printCalls = <<>>
          /\ spool = <<>>
    /\ bpc = "rejected" => response = << [status |-> 400] >>
    /\ Len(request.people) <= MAX_BATCH_SIZE =>
          /\ bpc # "rejected"
          /\ response # <<>> => response[1].status = 200

SizeLimitWitness ==
    /\ bpc = "rejected"
    /\ Len(request.people) = MAX_BATCH_SIZE + 1

\* C3: for every accepted batch and every completion order, the returned
\* results have one entry per person, and entry k carries the person_id of
\* people[k] and the outcome of its own call.
ResultsInOrder ==
    bpc = "returned" =>
        /\ response[1].status = 200
        /\ Len(response[1].results) = Len(request.people)
        /\ \A k \in Positions :
              /\ response[1].results[k].person_id = request.people[k].person_id
              /\ response[1].results[k] = Outcome(k)

\* a batch whose first and last entries name different people and ended differently
ResultsInOrderWitness ==
    /\ bpc = "returned"
    /\ Len(request.people) >= 2
    /\ request.people[1].person_id # request.people[Len(request.people)].person_id
    /\ response[1].results[1].success
    /\ ~response[1].results[Len(request.people)].success

\* the response to entry k was a failure: an exception or a non-success value
Failed(k) == answer[k] # <<>> /\ ~Outcome(k).success

\* C4: when the call of one person raises or returns a non-success value, that
\* person's outcome is {success: false, error: reason}, every other call is
\* still issued and runs to its own outcome, and the batch returns normally.
FailureIsolated ==
    (\E j \in Positions : Failed(j)) =>
        /\ response # <<>> => response[1].status = 200
        /\ \A k \in Positions :
              /\ task[k] = "inflight" => ENABLED TaskComplete(k)
              /\ task[k] = "done" =>
                    /\ taskReturn[k] = << [ret |-> Outcome(k)] >>
                    /\ Failed(k) => "error" \in DOMAIN taskReturn[k][1].ret
        /\ bpc = "gathering" /\ (\E k \in Positions : task[k] = "idle") =>
              \E k \in Positions : ENABLED TaskStart(k)
        /\ bpc = "returned" =>
              /\ \A k \in Positions : addCalls[k] = 1 /\ task[k] = "done"
              /\ \A k \in Positions : response[1].results[k] = Outcome(k)

\* a returned batch where one call raised, one returned false and one succeeded
FailureIsolatedWitness ==
    /\ bpc = "returned"
    /\ \E i, j, k \in Positions :
          /\ answer[i][1].kind = "raise"
          /\ answer[j][1] = [kind |-> "bool", body |-> "false"]
          /\ response[1].results[k].success

\* the labels of the entries whose own outcome was a success, in input order
RECURSIVE LabelsOfSuccessful(_)
LabelsOfSuccessful(k) ==
    IF k = 0 THEN <<>>
    ELSE LabelsOfSuccessful(k - 1) \o
           (IF results[k].success
            THEN << [name |-> request.people[k].name, code |-> request.people[k].code,
                     extra |-> ""] >>
            ELSE <<>>)

\* C5: with print_labels true, the submitted label list is one label for each
\* person whose outcome was successful, in input order, followed by the extra
\* labels; it holds no label for a person whose outcome was a failure.
LabelsMatchSuccesses ==
    (bpc = "returned" /\ request.print_labels) =>
        labels_to_print = LabelsOfSuccessful(Len(request.people)) \o request.extra_labels

NoPrintWhenDisabled ==
    ~request.print_labels =>
        /\ labels_to_print = <<>>
        /\ printCalls = <<>>
        /\ spool = <<>>
        /\ bpc = "returned" =>
              /\ response[1].status = 200
              /\ response[1].labels_printed = 0
              /\ \A k \in Positions : addCalls[k] = 1
              /\ \A k \in Positions : response[1].results[k] = Outcome(k)

\* print_labels false, extra labels given, a check-in succeeded
NoPrintWhenDisabledWitness ==
    /\ bpc = "returned"
    /\ ~request.print_labels
    /\ request.extra_labels # <<>>
    /\ \E k \in Positions : response[1].results[k].success

\* an expected id that is absent or agrees with the decoded field modulo 2^15
Agrees(exp, field) == exp = <<>> \/ (exp[1] % MASK15) = field

\* C8: validate_checkin_code returns the decoded fields iff the code decodes and
\* every expected id given agrees with the decoded field modulo 2^15; the
\* expected ids X and X + 32768 give the same result.
ValidateModulo ==
    cpc = "validated" =>
        LET dec == decode_checkin_code(code)
        IN  /\ validated =
                  (IF /\ dec # <<>>
                      /\ Agrees(expected.instance_id, dec[1].instance_id)
                      /\ Agrees(expected.person_id, dec[1].person_id)
                   THEN dec ELSE <<>>)
            /\ expected.instance_id # <<>> =>
                  /\ validate_checkin_code(code, <<expected.instance_id[1] + MASK15>>,
                                           expected.person_id) = validated
                  /\ (dec # <<>> /\ (expected.instance_id[1] % MASK15) # dec[1].instance_id)
                        => validated = <<>>

\* the code of instance 7 validated against 7 + 32768
ValidateModuloWitness ==
    /\ cpc = "validated"
    /\ instance_id = 7
    /\ expected.instance_id = <<7 + MASK15>>
    /\ validated # <<>>
    /\ validated[1].instance_id = 7

\* C9: decode_checkin_code returns None when the normalized input does not have
\* exactly 7 symbols or holds a symbol outside the alphabet; when it returns a
\* result, the 7th symbol is the checksum of the value of the first 6.
DecodeRejects ==
    cpc = "decoded" =>
        LET norm == Normalize(code)
        IN  /\ Len(norm) # 7 => decoded = <<>>
            /\ (\E i \in 1..Len(norm) : norm[i] \notin {ALPHABET[j] : j \in 1..BASE})
                  => decoded = <<>>
            /\ decoded # <<>> =>
                  AlphabetIndex(norm[7]) =
                      checksum(Unpack(0, [i \in 1..6 |-> AlphabetIndex(norm[i])]))

\* a code of 7 symbols, one of them a look-alike outside the alphabet, is refused
DecodeRejectsWitness ==
    /\ cpc = "decoded"
    /\ decoded = <<>>
    /\ Len(Normalize(code)) = 7
    /\ \E i \in 1..7 : Normalize(code)[i] \in {"0", "1", "O", "I", "L"}

\* C10: within one accepted batch add_attendance is invoked exactly once for
\* each entry, and the printer at most once: once, after all attendance calls
\* have completed, when the label list is non-empty, and never when it is empty.
OncePerBatch ==
    /\ [](/\ \A k \in Positions : addCalls[k] <= 1
          /\ Len(printCalls) <= 1
          /\ \A i \in 1..Len(printCalls) : printCalls[i] # <<>>
          /\ bpc = "returned" =>
                /\ \A k \in Positions : addCalls[k] = 1
                /\ labels_to_print # <<>> => printCalls = <<labels_to_print>>
                /\ labels_to_print = <<>> => printCalls = <<>>)
    /\ [][/\ printCalls' # printCalls =>
                \A k \in Positions : task[k] = "done" /\ answer[k] # <<>>
          /\ \A k \in Positions : answer[k] # <<>> => addCalls'[k] = addCalls[k]]_vars

\* a returned batch with a failed call and one print job
OncePerBatchWitness ==
    /\ bpc = "returned"
    /\ Len(printCalls) = 1
    /\ \E k \in Positions : ~response[1].results[k].success

\* C12: on every path through print_labels the temporary PDF it created is
\* removed by the time it returns, and the pages of the batch go to the spooler
\* as one file in one lp invocation.
TempRemovedOneJob ==
    /\ tmpFiles = 0
    /\ Len(spool) <= 1
    /\ Len(spool) <= Len(printCalls)
    /\ spool # <<>> =>
          /\ Len(spool[1]) = Len(printCalls[1])
          /\ \A i \in 1..Len(spool[1]) : spool[1][i].label = printCalls[1][i]
    /\ print_success => Len(spool) = 1

\* lp was handed a file of several pages and the print failed
TempRemovedOneJobWitness ==
    /\ bpc = "returned"
    /\ spool # <<>>
    /\ Len(spool[1]) >= 2
    /\ ~print_success

\* C13: decoding the code generated for (person_id, instance_id) gives None or
\* {instance_id mod 2^15, person_id mod 2^15}, never another pair, and two
\* pairs that differ modulo 2^15 never get the same code.
FailClosed ==
    /\ (cpc = "decoded" /\ Untouched) =>
          \/ decoded = <<>>
          \/ decoded = << [instance_id |-> instance_id % MASK15,
                           person_id |-> person_id % MASK15] >>
    /\ (cpc = "decoded" /\ Untouched /\ decoded # <<>>) =>
          ( encode_checkin_code(decoded[1].person_id, decoded[1].instance_id) = code
            => /\ decoded[1].person_id = person_id % MASK15
               /\ decoded[1].instance_id = instance_id % MASK15 )

\* the number of entries whose own call succeeded
Successes == Cardinality({ k \in 1..Len(results) : results[k].success })

\* C14: also with a person_id that occurs in several entries, an entry gets a
\* label only if its own add_attendance call succeeded, so the number of
\* people-derived labels equals the number of successful results.
LabelCountIsSuccessCount ==
    (bpc = "returned" /\ request.print_labels) =>
        Len(labels_to_print) - Len(request.extra_labels) = Successes

\* the positions of a code that hold a symbol, not the hyphen
SymbolPositions(c) == { i \in 1..Len(c) : c[i] # "-" }

\* the single-symbol replacements of c: position i gets another symbol of the alphabet
Replacements(c) ==
    { <<i, j>> \in SymbolPositions(c) \X (1..BASE) : ALPHABET[j] # c[i] }

\* the replacements of c that still decode
Undetected(c) ==
    { r \in Replacements(c) :
        decode_checkin_code([c EXCEPT ![r[1]] = ALPHABET[r[2]]]) # <<>> }

\* a generated code that decodes
ValidGenerated == cpc = "encoded" /\ decode_checkin_code(code) # <<>>

====
